---- MODULE Spec2Model ----
(***************************************************************************)
(* Model of the OpenPond SDK message-delivery subsystem (src/src/lib.rs):  *)
(* the shared cursor and callback slots of one session, the polling loops  *)
(* spawned by start(), and the remote fetch-since endpoint they talk to.   *)
(***************************************************************************)
EXTENDS Integers, Sequences, FiniteSets, TLC

\* ---- bounds of the model ------------------------------------------------
MaxLoops == 2
MaxMsgs == 2
MaxTs == 2
MaxCallbacks == 1

\* ---- value spaces -------------------------------------------------------
Loops == 1 .. MaxLoops
Callbacks == 1 .. MaxCallbacks
Timestamps == 1 .. MaxTs
\* Option::None of a callback slot, and a lock nobody holds
None == 0
Free == 0

Max(a, b) == IF a >= b THEN a ELSE b

VARIABLES
    last_message_timestamp,  \* Arc<Mutex<i64>>: the delivery cursor
    message_callback,        \* Arc<Mutex<Option<..>>>: None or a callback
    error_callback,          \* Arc<Mutex<Option<..>>>: None or a callback
    msg_lock,                \* holder of the message_callback mutex
    err_lock,                \* holder of the error_callback mutex
    store,                   \* the service's messages: store[i] = timestamp of id i
    pc,                      \* position of each spawned polling task
    since,                   \* per task: the cursor value read for this tick
    response,                \* per task: what the fetch of this tick came back as
    messages,                \* per task: the decoded batch
    max_timestamp,           \* per task: running maximum of the dispatch
    iter,                    \* per task: position of the `for message in messages`
    delivery,                \* history: per message id, what happened to it
    hi_cursor,               \* history: the largest value the cursor ever held
    msg_log,                 \* history: per task, callback invocations of this tick
    err_log,                 \* history: per task, error reports of this tick
    start_result,            \* what start() returned, when the last step was a start()
    register_answer,         \* and what the register call of that start() was answered
    private_key,             \* config.private_key: NoKey (hosted) or a key (owned)
    recipient,               \* the service's messages: recipient[i] = to_agent_id of id i
    handle                   \* whether the application still holds the OpenPondSDK value

vars == << last_message_timestamp, message_callback, error_callback, msg_lock,
           err_lock, store, pc, since, response, messages, max_timestamp,
           iter, delivery, hi_cursor, msg_log, err_log, start_result,
           register_answer, private_key, recipient, handle >>

shared == << last_message_timestamp, message_callback, error_callback >>
locks == << msg_lock, err_lock >>
locals == << since, response, messages, max_timestamp, iter >>
history == << delivery, hi_cursor, msg_log, err_log >>
session == << private_key, recipient, handle >>

\* Option<String> of config.private_key
NoKey == "None"
OwnKey == "Some(key)"
PrivateKeys == {NoKey, OwnKey}
\* to_agent_id of a message: the session's own agent id, or another agent's
Agents == {"self", "other"}

\* ---- the Message type and the fetch-since endpoint ----------------------
Message(i) == [id |-> i, timestamp |-> store[i], to_agent_id |-> recipient[i]]

Stored == 1 .. Len(store)

\* the ids GET /messages?since=<cursor> answers with
FetchSince(cursor) == {i \in Stored : store[i] > cursor}

\* every order in which the endpoint may list a set of ids
Orders(S) ==
    {q \in [1 .. Cardinality(S) -> S] : \A a, b \in 1 .. Cardinality(S) : a # b => q[a] # q[b]}

Batches(cursor) ==
    {[k \in 1 .. Len(q) |-> Message(q[k])] : q \in Orders(FetchSince(cursor))}

\* ---- construction -------------------------------------------------------
\* OpenPondSDK::new(config)
New(key) ==
    /\ private_key = key
    /\ handle = "live"
    /\ recipient = << >>
    /\ last_message_timestamp = 0
    /\ message_callback = None
    /\ error_callback = None
    /\ msg_lock = Free
    /\ err_lock = Free
    /\ store = << >>
    /\ pc = [l \in Loops |-> "idle"]
    /\ since = [l \in Loops |-> 0]
    /\ response = [l \in Loops |-> "none"]
    /\ messages = [l \in Loops |-> << >>]
    /\ max_timestamp = [l \in Loops |-> 0]
    /\ iter = [l \in Loops |-> 1]
    /\ delivery = [i \in 1 .. MaxMsgs |-> "unseen"]
    /\ hi_cursor = 0
    /\ msg_log = [l \in Loops |-> << >>]
    /\ err_log = [l \in Loops |-> << >>]
    /\ start_result = "none"
    /\ register_answer = "none"

\* a session in hosted mode
Init == New(NoKey)

\* a step that is no start() call returns nothing to a start() caller
NoReturn == start_result' = "none" /\ register_answer' = "none"

\* ---- callback registration ----------------------------------------------
\* variant: the slot is written without waiting for its lock
OnMessage_NoLock(c) ==
    /\ handle = "live"
    /\ message_callback' = c
    /\ UNCHANGED << last_message_timestamp, error_callback, locks, store, pc,
                    locals, history >>
    /\ NoReturn
    /\ UNCHANGED session

OnMessage(c) ==
    /\ handle = "live"
    /\ msg_lock = Free
    /\ message_callback' = c
    /\ UNCHANGED << last_message_timestamp, error_callback, locks, store, pc,
                    locals, history >>
    /\ NoReturn
    /\ UNCHANGED session

OnError(c) ==
    /\ handle = "live"
    /\ err_lock = Free
    /\ error_callback' = c
    /\ UNCHANGED << last_message_timestamp, message_callback, locks, store, pc,
                    locals, history >>
    /\ NoReturn
    /\ UNCHANGED session

\* ---- start(): register, then spawn the polling task ---------------------
\* a 2xx status; 409; another status with a readable body; another status
\* whose body cannot be read; no answer at all
RegisterAnswers == {"success", "conflict", "failure", "failure_unread", "unreachable"}

\* variant: 409 is an error like any other non-success status
RegisterAgent_NoConflict(answer) ==
    CASE answer = "success" -> "Ok"
      [] answer = "conflict" -> "ApiError"
      [] answer = "failure" -> "ApiError"
      [] answer = "failure_unread" -> "HttpError"
      [] answer = "unreachable" -> "HttpError"

\* register_agent(): what an answer of the register call makes of the call
\* (`send().await?` and `response.text().await?` turn a reqwest::Error
\* into OpenPondError::HttpError)
RegisterAgent(answer) ==
    CASE answer = "success" -> "Ok"
      [] answer = "conflict" -> "Ok"
      [] answer = "failure" -> "ApiError"
      [] answer = "failure_unread" -> "HttpError"
      [] answer = "unreachable" -> "HttpError"

Idle == {l \in Loops : pc[l] = "idle"}

\* start_polling(): every call spawns a task of its own
StartPolling ==
    LET l == CHOOSE k \in Idle : \A j \in Idle : k <= j
    IN  pc' = [pc EXCEPT ![l] = "tick_wait"]

\* (calls are followed while fewer than MaxLoops tasks have been spawned)
Start(answer) ==
    /\ handle = "live"
    /\ Idle # {}
    /\ register_answer' = answer
    /\ start_result' = RegisterAgent(answer)
    /\ IF RegisterAgent(answer) = "Ok"
         THEN StartPolling
         ELSE UNCHANGED pc
    /\ UNCHANGED << shared, locks, store, locals, history, session >>

\* ---- the remote service stores a message for the session -----------------
StoreMessage(ts) ==
    /\ Len(store) < MaxMsgs
    /\ store' = Append(store, ts)
    /\ recipient' = Append(recipient, "self")
    /\ UNCHANGED << shared, locks, pc, locals, history, private_key, handle >>
    /\ NoReturn

\* ... or a message addressed to another agent
StoreForeign(ts) ==
    /\ Len(store) < MaxMsgs
    /\ store' = Append(store, ts)
    /\ recipient' = Append(recipient, "other")
    /\ UNCHANGED << shared, locks, pc, locals, history, private_key, handle >>
    /\ NoReturn

\* ---- one polling task ---------------------------------------------------
\* interval.tick().await, then the read of the cursor under its lock
Tick(l) ==
    /\ pc[l] = "tick_wait"
    /\ since' = [since EXCEPT ![l] = last_message_timestamp]
    /\ response' = [response EXCEPT ![l] = "none"]
    /\ messages' = [messages EXCEPT ![l] = << >>]
    /\ max_timestamp' = [max_timestamp EXCEPT ![l] = 0]
    /\ iter' = [iter EXCEPT ![l] = 1]
    /\ msg_log' = [msg_log EXCEPT ![l] = << >>]
    /\ err_log' = [err_log EXCEPT ![l] = << >>]
    /\ pc' = [pc EXCEPT ![l] = "send"]
    /\ UNCHANGED << shared, locks, store, delivery, hi_cursor >>
    /\ NoReturn
    /\ UNCHANGED session

Outcomes == {"net_err", "http_err", "text_err", "bad_json", "bad_messages", "ok"}

\* the GET /messages?since= request completes, one way or another
RecvResponse(l, kind) ==
    /\ pc[l] = "send"
    /\ response' = [response EXCEPT ![l] = kind]
    /\ IF kind = "ok"
         THEN \E b \in Batches(since[l]) : messages' = [messages EXCEPT ![l] = b]
         ELSE UNCHANGED messages
    /\ pc' = [pc EXCEPT ![l] = "match"]
    /\ UNCHANGED << shared, locks, store, since, max_timestamp, iter, history >>
    /\ NoReturn
    /\ UNCHANGED session

\* the OpenPondError the loop builds for an outcome
ErrorOf(kind) ==
    CASE kind = "http_err" -> "ApiError"
      [] kind = "net_err" -> "NetworkError"
      [] kind = "text_err" -> "NetworkError"
      [] kind = "bad_json" -> "SerializationError"

\* variant: only the status branch reaches the error callback
CallErrorCallback_StatusOnly(l, kind) ==
    IF error_callback # None /\ kind = "http_err"
      THEN err_log' = [err_log EXCEPT
                         ![l] = Append(@, [cb |-> error_callback, err |-> ErrorOf(kind)])]
      ELSE UNCHANGED err_log

\* variant: the error is reported whether or not a callback was registered
CallErrorCallback_Always(l, kind) ==
    err_log' = [err_log EXCEPT
                  ![l] = Append(@, [cb |-> error_callback, err |-> ErrorOf(kind)])]

\* `if let Some(cb) = error_callback.lock().await.as_ref() { cb(e) }`
CallErrorCallback(l, kind) ==
    IF error_callback # None
      THEN err_log' = [err_log EXCEPT
                         ![l] = Append(@, [cb |-> error_callback, err |-> ErrorOf(kind)])]
      ELSE UNCHANGED err_log

\* where the loop goes once an outcome is dealt with
Continue(l) == pc' = [pc EXCEPT ![l] = "tick_wait"]

\* variant: the error branch leaves the loop instead of going on
ReportError_Break(l) ==
    /\ pc[l] = "match"
    /\ response[l] \in {"net_err", "text_err", "bad_json"}
    /\ err_lock = Free
    /\ CallErrorCallback(l, response[l])
    /\ pc' = [pc EXCEPT ![l] = "stopped"]
    /\ UNCHANGED << shared, locks, store, locals, delivery, hi_cursor, msg_log >>
    /\ NoReturn
    /\ UNCHANGED session

\* send() failed, the body could not be read, or the body is not JSON
ReportError(l) ==
    /\ pc[l] = "match"
    /\ response[l] \in {"net_err", "text_err", "bad_json"}
    /\ err_lock = Free
    /\ CallErrorCallback(l, response[l])
    /\ Continue(l)
    /\ UNCHANGED << shared, locks, store, locals, delivery, hi_cursor, msg_log >>
    /\ NoReturn
    /\ UNCHANGED session

\* non-success status: the error_callback lock is taken first and, with a
\* callback present, kept while the error body is read
HttpErrorLock(l) ==
    /\ pc[l] = "match"
    /\ response[l] = "http_err"
    /\ err_lock = Free
    /\ IF error_callback # None
         THEN /\ err_lock' = l
              /\ pc' = [pc EXCEPT ![l] = "err_body"]
         ELSE /\ UNCHANGED err_lock
              /\ Continue(l)
    /\ UNCHANGED << shared, msg_lock, store, locals, history >>
    /\ NoReturn
    /\ UNCHANGED session

\* variant: the guard of the error_callback lock is never dropped
HttpErrorReport_KeepLock(l) ==
    /\ pc[l] = "err_body"
    /\ CallErrorCallback(l, response[l])
    /\ Continue(l)
    /\ UNCHANGED << shared, locks, store, locals, delivery, hi_cursor, msg_log >>
    /\ NoReturn
    /\ UNCHANGED session

\* response.text().await.unwrap_or_default() done: cb(ApiError), continue
HttpErrorReport(l) ==
    /\ pc[l] = "err_body"
    /\ CallErrorCallback(l, response[l])
    /\ err_lock' = Free
    /\ Continue(l)
    /\ UNCHANGED << shared, msg_lock, store, locals, delivery, hi_cursor, msg_log >>
    /\ NoReturn
    /\ UNCHANGED session

\* variant: the cursor write sits after the `if let Ok`, not inside it
SkipUndecodable_Store(l) ==
    /\ pc[l] = "match"
    /\ response[l] = "bad_messages"
    /\ pc' = [pc EXCEPT ![l] = "store_cursor"]
    /\ UNCHANGED << shared, locks, store, locals, history >>
    /\ NoReturn
    /\ UNCHANGED session

\* valid JSON whose `messages` is no Vec<Message>: the `if let Ok` has no else
SkipUndecodable(l) ==
    /\ pc[l] = "match"
    /\ response[l] = "bad_messages"
    /\ Continue(l)
    /\ UNCHANGED << shared, locks, store, locals, history >>
    /\ NoReturn
    /\ UNCHANGED session

\* variant: the running maximum starts at 0
InitialMax_Zero(s) == 0

\* `let mut max_timestamp = since;`
InitialMax(s) == s

\* variant: the last message's timestamp wins
NextMax_Last(mx, ts) == ts

\* `max_timestamp = std::cmp::max(max_timestamp, message.timestamp);`
NextMax(mx, ts) == Max(mx, ts)

\* history: a batch fetched with no callback present is noted as missed
Missed(b) ==
    [i \in 1 .. MaxMsgs |->
        IF delivery[i] = "unseen" /\ \E k \in 1 .. Len(b) : b[k].id = i
          THEN "missed" ELSE delivery[i]]

\* a decoded batch: take the message_callback lock and look at the slot
LockCallback(l) ==
    /\ pc[l] = "match"
    /\ response[l] = "ok"
    /\ msg_lock = Free
    /\ max_timestamp' = [max_timestamp EXCEPT ![l] = InitialMax(since[l])]
    /\ IF message_callback # None /\ messages[l] # << >>
         THEN /\ msg_lock' = l
              /\ pc' = [pc EXCEPT ![l] = "dispatch"]
              /\ UNCHANGED delivery
         ELSE /\ UNCHANGED msg_lock
              /\ pc' = [pc EXCEPT ![l] = "store_cursor"]
              /\ delivery' = IF message_callback = None
                               THEN Missed(messages[l]) ELSE delivery
    /\ UNCHANGED << shared, err_lock, store, since, response, messages, iter,
                    hi_cursor, msg_log, err_log >>
    /\ NoReturn
    /\ UNCHANGED session

\* one turn of `for message in messages { max_timestamp = ..; cb(message); }`;
\* the lock guard is dropped when the `if let` ends
Dispatch(l) ==
    /\ pc[l] = "dispatch"
    /\ LET message == messages[l][iter[l]]
       IN  /\ max_timestamp' =
                 [max_timestamp EXCEPT ![l] = NextMax(@, message.timestamp)]
           /\ msg_log' = [msg_log EXCEPT
                            ![l] = Append(@, [cb |-> message_callback, id |-> message.id])]
           /\ delivery' = [delivery EXCEPT ![message.id] = "delivered"]
    /\ iter' = [iter EXCEPT ![l] = @ + 1]
    /\ IF iter[l] = Len(messages[l])
         THEN /\ msg_lock' = Free
              /\ pc' = [pc EXCEPT ![l] = "store_cursor"]
         ELSE UNCHANGED << msg_lock, pc >>
    /\ UNCHANGED << shared, err_lock, store, since, response, messages, hi_cursor,
                    err_log >>
    /\ NoReturn
    /\ UNCHANGED session

\* `*last_timestamp.lock().await = max_timestamp;`
StoreCursor(l) ==
    /\ pc[l] = "store_cursor"
    /\ last_message_timestamp' = max_timestamp[l]
    /\ hi_cursor' = Max(hi_cursor, max_timestamp[l])
    /\ Continue(l)
    /\ UNCHANGED << message_callback, error_callback, locks, store, locals,
                    delivery, msg_log, err_log >>
    /\ NoReturn
    /\ UNCHANGED session

LoopStep(l) ==
    \/ Tick(l)
    \/ \E kind \in Outcomes : RecvResponse(l, kind)
    \/ ReportError(l)
    \/ HttpErrorLock(l)
    \/ HttpErrorReport(l)
    \/ SkipUndecodable(l)
    \/ LockCallback(l)
    \/ Dispatch(l)
    \/ StoreCursor(l)

Next ==
    \/ \E c \in Callbacks : OnMessage(c)
    \/ \E c \in Callbacks : OnError(c)
    \/ \E answer \in RegisterAnswers : Start(answer)
    \/ \E ts \in Timestamps : StoreMessage(ts)
    \/ \E l \in Loops : LoopStep(l)

Spec == Init /\ [][Next]_vars

\* ---- the end of a session ----------------------------------------------
\* The application lets go of its OpenPondSDK value (the only way the API
\* has to end a session).  The spawned task owns clones of the three Arcs
\* and of the client, and nothing tells it to finish.
Drop ==
    /\ handle = "live"
    /\ handle' = "dropped"
    /\ UNCHANGED << shared, locks, store, pc, locals, history, private_key,
                    recipient >>
    /\ NoReturn

ShutdownNext == Next \/ Drop

ShutdownSpec == Init /\ [][ShutdownNext]_vars

\* ---- an application that registers a callback over an earlier one --------
Replacements == 1 .. MaxCallbacks + 1

ReplaceNext ==
    \/ Next
    \/ \E c \in Replacements : OnMessage(c)
    \/ \E c \in Replacements : OnError(c)

ReplaceSpec == Init /\ [][ReplaceNext]_vars

\* ---- sessions of either mode, a service holding anybody's messages ------
IdentityInit == \E key \in PrivateKeys : New(key)

IdentityNext == Next \/ \E ts \in Timestamps : StoreForeign(ts)

IdentitySpec == IdentityInit /\ [][IdentityNext]_vars

\* tokio schedules every spawned task, its timer and its I/O complete, and
\* tokio's Mutex is FIFO-fair: a task that is enabled again and again runs
FairSpec == Spec /\ \A l \in Loops : SF_vars(LoopStep(l))

\* ---- notions the properties share ---------------------------------------
Spawned == Loops \ Idle

\* the step is task l's cursor write
Stores(l) == pc[l] = "store_cursor" /\ pc'[l] = "tick_wait"

\* the step is task l passing a message to the message callback
Dispatches(l) == Len(msg_log'[l]) = Len(msg_log[l]) + 1

\* the step is task l finishing a tick
EndsTick(l) == pc[l] \in {"match", "err_body", "store_cursor"} /\ pc'[l] = "tick_wait"

\* task l sleeps after a tick it has run
TickEnded(l) == pc[l] = "tick_wait" /\ response[l] # "none"

Failures == Outcomes \ {"ok"}

Ids(log) == [k \in 1 .. Len(log) |-> log[k].id]

LargestTimestamp(b) ==
    CHOOSE t \in {b[k].timestamp : k \in 1 .. Len(b)} :
        \A k \in 1 .. Len(b) : b[k].timestamp <= t

\* ---- C1 ------------------------------------------------------------------
\* C1: no message id is passed to the message callback twice, and no message
\* is dispatched whose timestamp is at most a value the cursor has reached.
C1_NoDuplicateDelivery ==
    [][\A l \in Loops :
         Dispatches(l) =>
            LET message == messages[l][iter[l]]
            IN  /\ delivery[message.id] # "delivered"
                /\ message.timestamp > hi_cursor]_vars

\* ---- C2 ------------------------------------------------------------------
\* C2: the cursor never decreases, and every write of it sets it to the
\* maximum of its value at the write and the candidate.
C2_CursorMonotone ==
    [][/\ last_message_timestamp' >= last_message_timestamp
       /\ \A l \in Loops :
            Stores(l) =>
               last_message_timestamp' = Max(last_message_timestamp, max_timestamp[l])]_vars

\* ---- C8 ------------------------------------------------------------------
\* C8: at no time are two polling loops active over the session's cursor and
\* callback slots.
C8_OneLoop == Cardinality(Spawned) <= 1

\* ---- C3 ------------------------------------------------------------------
\* a tick that came back with a decoded batch is about to write the cursor
SuccessfulTick == \E l \in Loops : pc[l] = "store_cursor"

\* C3: with a message callback registered before the first start() and poll
\* ticks succeeding again and again, every message the service stores is
\* eventually passed to the callback, whatever its timestamp.
C3_NoGaps ==
    ([](Spawned # {} => message_callback # None) /\ []<>SuccessfulTick)
        => \A i \in 1 .. MaxMsgs : (i \in Stored) ~> (delivery[i] = "delivered")

\* ---- C4 ------------------------------------------------------------------
\* C4: a successful tick with a callback present and a non-empty batch passes
\* each message of the batch to the callback exactly once, in the order of
\* the batch, and its cursor write sets the cursor to the maximum of the
\* value the tick read at its start and the largest timestamp of the batch.
C4_AdvanceCorrect ==
    [][\A l \in Loops :
         /\ (/\ pc[l] = "match" /\ response[l] = "ok" /\ pc'[l] # "match"
             /\ message_callback # None /\ messages[l] # << >>)
               => pc'[l] = "dispatch"
         /\ pc[l] = "dispatch" => pc'[l] \in {"dispatch", "store_cursor"}
         /\ (pc[l] = "dispatch" /\ pc'[l] = "store_cursor")
               => Ids(msg_log'[l]) = Ids(messages[l])
         /\ (Stores(l) /\ msg_log[l] # << >>)
               => /\ Ids(msg_log[l]) = Ids(messages[l])
                  /\ last_message_timestamp' =
                        Max(since[l], LargestTimestamp(messages[l]))]_vars

\* a tick dispatched an out-of-order batch of two and wrote the larger timestamp
C4_Witness ==
    \E l \in Loops :
        /\ TickEnded(l) /\ response[l] = "ok"
        /\ Len(messages[l]) = 2
        /\ messages[l][1].timestamp > messages[l][2].timestamp
        /\ Ids(msg_log[l]) = Ids(messages[l])
        /\ last_message_timestamp = messages[l][1].timestamp

\* ---- C5 ------------------------------------------------------------------
\* C5: no step of a tick whose fetch failed (status, network, unreadable or
\* undecodable body) changes the cursor or invokes the message callback.
C5_FailedTickFrame ==
    [][\A l \in Loops :
         (pc'[l] # pc[l] /\ response'[l] \in Failures)
            => /\ last_message_timestamp' = last_message_timestamp
               /\ msg_log'[l] = << >>
               /\ delivery' = delivery]_vars

\* a tick failed while the cursor was past 0 and a message was waiting
C5_Witness ==
    \E l \in Loops :
        /\ TickEnded(l) /\ response[l] \in Failures
        /\ message_callback # None
        /\ since[l] > 0 /\ last_message_timestamp = since[l]
        /\ FetchSince(last_message_timestamp) # {}

\* ---- C6 ------------------------------------------------------------------
\* C6: with an error callback registered, a tick that fails with a
\* non-success status or a network error ends with exactly one error callback
\* invocation (ApiError, resp. NetworkError); a successful tick ends with none.
C6_ErrorIsolation ==
    [][\A l \in Loops :
         EndsTick(l) =>
            /\ (response[l] \in {"http_err", "net_err"} /\ error_callback # None)
                  => err_log'[l] =
                       << [cb |-> error_callback,
                           err |-> IF response[l] = "http_err"
                                     THEN "ApiError" ELSE "NetworkError"] >>
            /\ response[l] = "ok" => err_log'[l] = << >>]_vars

\* one task's tick ended on a status failure, another's on a network failure,
\* each reported once
C6_Witness ==
    \E l, k \in Loops :
        /\ TickEnded(l) /\ response[l] = "http_err" /\ Len(err_log[l]) = 1
        /\ TickEnded(k) /\ response[k] = "net_err" /\ Len(err_log[k]) = 1

\* ---- C7 ------------------------------------------------------------------
\* C7: whatever a tick's fetch comes back as, the loop goes on to send the
\* fetch of a further tick.
C7_NeverStops == \A l \in Loops : (pc[l] = "match") ~> (pc[l] = "send")

\* a tick has ended in each way a tick can fail
C7_Witness ==
    \E l, k \in Loops :
        /\ TickEnded(l) /\ response[l] = "bad_json"
        /\ TickEnded(k) /\ response[k] = "bad_messages"

\* ---- C9 ------------------------------------------------------------------
\* C9: a message fetched while no message callback was registered is never
\* passed to a callback afterwards, and a fetched batch counts as consumed:
\* the cursor write after it leaves the cursor at or past its largest timestamp.
C9_NoReplay ==
    [][\A l \in Loops :
         /\ Dispatches(l) => delivery[messages[l][iter[l]].id] # "missed"
         /\ (Stores(l) /\ messages[l] # << >>)
               => last_message_timestamp' >= LargestTimestamp(messages[l])]_vars

\* ---- C10 -----------------------------------------------------------------
\* C10: a successful tick with an empty batch writes back the cursor value it
\* read at its start and has invoked neither callback.
C10_EmptyBatch ==
    [][\A l \in Loops :
         (Stores(l) /\ response[l] = "ok" /\ messages[l] = << >>)
            => /\ last_message_timestamp' = since[l]
               /\ msg_log'[l] = << >>
               /\ err_log'[l] = << >>]_vars

\* an empty batch came back with both callbacks registered and the cursor past 0
C10_Witness ==
    \E l \in Loops :
        /\ TickEnded(l) /\ response[l] = "ok" /\ messages[l] = << >>
        /\ message_callback # None /\ error_callback # None
        /\ since[l] > 0 /\ last_message_timestamp = since[l]

\* ---- C11 -----------------------------------------------------------------
\* the step is a start() whose register call was answered with `answer`
Starts(answer) == register_answer' = answer

\* C11: a start() whose register call is answered 409 returns Ok and spawns
\* the polling task, exactly as one answered with a success status does.
C11_ConflictIsSuccess ==
    [][Starts("conflict") =>
          /\ start_result' = "Ok"
          /\ \E l \in Idle : pc' = [pc EXCEPT ![l] = "tick_wait"]
          /\ Cardinality(Spawned') = Cardinality(Spawned) + 1
          /\ UNCHANGED << shared, locks, store, locals, history >>
          /\ ENABLED Start("success")]_vars

\* a start() answered 409 has just returned Ok with its task spawned
C11_Witness ==
    /\ register_answer = "conflict" /\ start_result = "Ok"
    /\ \E l \in Loops : pc[l] = "tick_wait" /\ response[l] = "none"

\* ---- C12 -----------------------------------------------------------------
\* answers of the register call that carry a non-success status other than 409
StatusFailures == {"failure", "failure_unread"}

\* C12: a start() whose register call fails returns an error (ApiError when
\* the failure is a non-success status other than 409), spawns no polling
\* task, invokes no callback and leaves the cursor where it was.
C12_StartupFailureFatal ==
    [][\A answer \in StatusFailures \cup {"unreachable"} :
          Starts(answer) =>
              /\ start_result' # "Ok"
              /\ answer \in StatusFailures => start_result' = "ApiError"
              /\ UNCHANGED << pc, shared, locks, store, locals, history >>]_vars

\* ---- C13 -----------------------------------------------------------------
\* task l reports an error to the error callback in this step
Reports(l) == Len(err_log'[l]) = Len(err_log[l]) + 1

\* task l begins another tick in this step
BeginsTick(l) == pc[l] = "tick_wait" /\ pc'[l] = "send"

\* C13: once the session has been shut down, no message callback and no
\* error callback is invoked any more and no polling task begins another
\* tick; shutting down a session that never started changes nothing else.
C13_CleanShutdown ==
    [][handle = "dropped" =>
          \A l \in Loops : ~Dispatches(l) /\ ~Reports(l) /\ ~BeginsTick(l)]_vars

\* ---- C15 -----------------------------------------------------------------
\* the message task l passes to the callback in this step
Dispatched(l) == Message(msg_log'[l][Len(msg_log'[l])].id)

\* task l passes the last message of its batch to the callback in this step
EndsBatch(l) == pc[l] = "dispatch" /\ pc'[l] = "store_cursor"

\* C15: a session that owns an identity never passes a message addressed
\* to another agent to the message callback; a hosted session passes every
\* message of a fetched batch to it.
C15_IdentityFiltering ==
    [][\A l \in Loops :
          /\ (Dispatches(l) /\ private_key # NoKey)
                => Dispatched(l).to_agent_id = "self"
          /\ (EndsBatch(l) /\ private_key = NoKey)
                => Ids(msg_log'[l]) = [k \in 1 .. Len(messages[l]) |-> messages[l][k].id]]_vars

\* ---- C14 -----------------------------------------------------------------
\* C14: a failing tick dealt with while no error callback is registered
\* invokes no callback, leaves the cursor and both callback slots alone and
\* goes on to the next tick; registering an error callback afterwards
\* invokes nothing.
C14_SilentAbsorption ==
    [][/\ \A l \in Loops :
             (EndsTick(l) /\ response[l] \in Failures /\ error_callback = None) =>
                 /\ ~Reports(l) /\ ~Dispatches(l)
                 /\ err_log'[l] = << >> /\ msg_log'[l] = << >>
                 /\ UNCHANGED shared
                 /\ pc'[l] = "tick_wait"
       /\ error_callback' # error_callback => UNCHANGED << err_log, msg_log >>]_vars

\* a tick failed unreported, and an error callback has been registered since
C14_Witness ==
    \E l \in Loops :
        /\ TickEnded(l) /\ response[l] = "net_err"
        /\ err_log[l] = << >>
        /\ error_callback # None

\* ---- C16 -----------------------------------------------------------------
\* a success status whose body does not decode
Undecodable == {"bad_json", "bad_messages"}

\* C16: a tick that receives an undecodable body while an error callback is
\* registered reports SerializationError to it exactly once, dispatches no
\* message and leaves the cursor unchanged.
C16_UndecodableReported ==
    [][\A l \in Loops :
          (EndsTick(l) /\ response[l] \in Undecodable /\ error_callback # None) =>
              /\ err_log'[l] = << [cb |-> error_callback, err |-> "SerializationError"] >>
              /\ msg_log'[l] = << >>
              /\ UNCHANGED last_message_timestamp]_vars

\* ---- C17 -----------------------------------------------------------------
\* task l is suspended on the network: the request, or the error body
OnNetwork(l) == pc[l] \in {"send", "err_body"}

\* C17: a polling task suspended on a network operation holds neither
\* callback lock (the cursor lock is released at the end of the block that
\* reads it, before the request is built).
C17_NoLockAcrossIO ==
    \A l \in Loops : OnNetwork(l) => msg_lock # l /\ err_lock # l

\* ---- C18 -----------------------------------------------------------------
\* the tasks that are in the middle of dispatching a batch
Dispatching == {l \in Loops : pc[l] = "dispatch"}

\* C18: a dispatch invokes the callback that on_message stored last, and a
\* report the one on_error stored last; on_message never takes effect in
\* the middle of a batch, so all messages of a batch go to one callback;
\* and no two batches are being dispatched at the same time.
C18_ConsistentCallback ==
    [][/\ \A l \in Loops :
             /\ Dispatches(l) =>
                   /\ msg_log'[l][Len(msg_log'[l])].cb = message_callback
                   /\ \A k \in 1 .. Len(msg_log'[l]) : msg_log'[l][k].cb = message_callback
                   /\ Dispatching = {l}
             /\ Reports(l) => err_log'[l][Len(err_log'[l])].cb = error_callback
       /\ message_callback' # message_callback => Dispatching = {}
       /\ Cardinality(Dispatching) <= 1]_vars

\* a batch of two went to one callback, and another was registered after it
C18_Witness ==
    \E l \in Loops :
        /\ Len(msg_log[l]) = 2
        /\ msg_log[l][1].cb = msg_log[l][2].cb
        /\ message_callback # msg_log[l][2].cb

\* ---- C19 -----------------------------------------------------------------
\* task l is between the start of a tick and its end
InTick(l) == pc[l] \in {"send", "match", "err_body", "dispatch", "store_cursor"}

\* a callback lock is held only by a task inside the section that took it,
\* and no task holds both
LockDiscipline ==
    /\ msg_lock # Free => pc[msg_lock] = "dispatch"
    /\ err_lock # Free => pc[err_lock] = "err_body"
    /\ \A l \in Loops : ~(msg_lock = l /\ err_lock = l)

====
